---- MODULE Spec2Model ----
(***************************************************************************)
(* The conditional-order engine of sniperfi: the in-memory active set, the *)
(* per-tick evaluation of trigger conditions, the retrying execution       *)
(* hand-off, the cancel handler of the front door and the periodic         *)
(* reconciliation against the persistent store.                            *)
(*                                                                         *)
(* One order is followed through the pipeline.  Every `await` of the       *)
(* JavaScript source is a point where other handlers may run, so every     *)
(* asynchronous function is cut into one action per await.  null,          *)
(* undefined and 0 are all falsy in the source and are modelled as 0.      *)
(* Prices are integers (one unit is one price step of the feed); the       *)
(* percentage comparison  price <= peak * (1 - trail/100)  is modelled     *)
(* exactly as  price * 100 <= peak * (100 - trail).                        *)
(*                                                                         *)
(* The module has two parts.  The first follows one order through          *)
(* evaluation and execution (specifications Spec, SpecHist, SpecSeq).  The *)
(* second follows the whole active set, the watch set of the price feed    *)
(* and its polling (specification SpecBook), with executions reduced to    *)
(* their beginning and their end.  Each specification leaves the variables *)
(* of the other part at their initial values.  Three small specifications  *)
(* follow single components: the executor's swap build with its platform   *)
(* fee (SpecFee), the order cap of the front door (SpecDoor) and the feed  *)
(* on its own with the events it emits (SpecPoll, SpecTick).               *)
(***************************************************************************)
EXTENDS Integers, FiniteSets, Sequences, Bags, TLC

\* ------------------------------------------------------------------ bounds

\* Evaluations of the order that may be suspended at an await at one time.
MaxTasks == 3
\* Price notifications delivered by the feed in one behaviour.
MaxTicks == 3
\* The count of emitted 'orderTriggered' events saturates here.
EmitCap == 2
\* Tokens requested per batch by PriceMonitor._poll.  The source's BATCH is
\* 100; it is scaled down so that one poll cycle needs several batches.
BatchSize == 1

\* The calls of PriceMonitor._poll the interval timer makes in a run of
\* SpecCycles.
MaxCycles == 3

\* ------------------------------------------------------- program constants

MAX_RETRIES == 3

\* executor.js: the platform fee in basis points.
PLATFORM_FEE_BPS == 50

\* server.js: the concurrent orders a wallet may have.
ACTIVE_LIMIT == 3

\* The reconnect delay of the WebSocket feed: its initial value, to which a
\* connection resets it, and its cap, in ms.
RECONNECT_FLOOR == 1000
RECONNECT_CEILING == 30000

\* ------------------------------------------------------------------ inputs

\* Prices the feed may report; 0 stands for a missing / zero price, -1 for a
\* negative one.
Prices == {10, 12, 15}
TickPrices == Prices \cup {0, -1}
\* Prices of the sequential specification (ticks processed one at a time).
SeqPrices == {0, 9, 10, 12, 15}

\* Answers of the RPC endpoint to getTokenAccountsByOwner.
RpcResponses ==
  {"accounts_positive", "accounts_zero", "no_accounts", "error_response",
   "network_error"}

NewOrder(type, target, entry, mult, trail) ==
  [order_type |-> type, target_price |-> target, entry_price |-> entry,
   target_multiplier |-> mult, trail_percent |-> trail]

\* Orders followed by the concurrent specification.
OrderConfigs ==
  { NewOrder("limit_buy", 12, 0, 0, 0),
    NewOrder("take_profit", 0, 6, 2, 0),
    NewOrder("stop_loss", 12, 0, 0, 0),
    NewOrder("trailing_stop", 0, 0, 0, 15) }

\* Orders followed by the sequential specification: every kind with present
\* and with missing (0) kind-specific parameters.
SeqOrderConfigs ==
  { NewOrder(t, tp, 0, 0, 0) : t \in {"limit_buy", "stop_loss"}, tp \in {0, 10, 12} }
  \cup { NewOrder("take_profit", 0, e, m, 0) : e \in {0, 5, 6}, m \in {0, 2} }
  \cup { NewOrder("trailing_stop", 0, 0, 0, tr) : tr \in {0, 15, 50} }

\* ------------------------------------------------------------------- state

VARIABLES
  order,        \* the order's immutable fields (as created in the store)
  dbStatus,     \* store: orders.status
  dbReason,     \* store: orders.fail_reason
  dbPeak,       \* store: orders.peak_price (0 = null)
  inOrders,     \* Engine.orders holds an object of the order
  memPeak,      \* peak_price of the object in Engine.orders (0 = null)
  executing,    \* order.id \in Engine._executing
  tasks,        \* the bag of suspended _evaluate / _execute calls
  reload,       \* the _reloadOrders call in flight
  cancelPc,     \* the DELETE /api/orders/:id request
  ticks,        \* price notifications delivered so far
  log,          \* events of the run, recorded by SpecHist only
  obs,          \* the evaluator's decisions, recorded by SpecSeq only
  rows,         \* store: status of each order id ("none" = not created)
  orders,       \* Engine.orders, as the sequence of the ids of its objects
  executingIds, \* Engine._executing
  running,      \* ids with a call of Engine._execute under way
  watching,     \* PriceMonitor.watching
  prices,       \* PriceMonitor.prices
  quote,        \* the price the Jupiter API reports per token (0 = none)
  poll,         \* the PriceMonitor._poll call in flight
  fresh,        \* the Engine._reloadOrders call in flight (SpecBook)
  pending,      \* front-door requests between their store call and the engine
  did,          \* the engine call that ran last (SpecBook): name, id, found
  feeWallet,    \* Executor.feeWallet is set (FEE_WALLET configured)
  built,        \* the Executor.buildBuy / buildSell call followed by SpecFee
  door,         \* the POST /api/orders requests of one wallet (SpecDoor)
  heard,        \* what the listeners of the feed last heard (SpecPoll, SpecTick)
  ws,           \* the WebSocket of each price monitor and its reconnect delay
  cycles        \* the calls of PriceMonitor._poll that overlap (SpecCycles)

vars ==
  <<order, dbStatus, dbReason, dbPeak, inOrders, memPeak, executing, tasks,
    reload, cancelPc, ticks, log, obs,
    rows, orders, executingIds, running, watching, prices, quote, poll, fresh,
    pending, did, feeWallet, built, door, heard, ws, cycles>>

engineVars ==
  <<order, dbStatus, dbReason, dbPeak, inOrders, memPeak, executing, tasks,
    reload, cancelPc, ticks, log, obs>>

bookVars ==
  <<rows, orders, executingIds, running, watching, prices, quote, poll, fresh,
    pending, did>>

sideVars == <<feeWallet, built, door, heard, ws, cycles>>

Truthy(x) == x # 0

Max(a, b) == IF a >= b THEN a ELSE b
Min(a, b) == IF a <= b THEN a ELSE b

\* ---------------------------------------------------------------- evaluator

\* Variants of the comparisons below, used to show that the trigger properties
\* tell them apart: an open boundary, and a peak that is only ever set once.
LimitBuyCondOpen(o, price) ==
  Truthy(o.target_price) /\ price < o.target_price

TakeProfitCondOpen(o, price) ==
  /\ Truthy(o.entry_price) /\ Truthy(o.target_multiplier)
  /\ price > o.entry_price * o.target_multiplier

NeedsPeakUpdateOnce(peak, price) ==
  ~Truthy(peak)

\* A trailing check that does not test trail_percent first.
TrailingStopCondUntested(o, peak, price) ==
  /\ Truthy(peak)
  /\ price * 100 <= peak * (100 - o.trail_percent)

\* Engine._evaluate, case 'limit_buy'.
LimitBuyCond(o, price) ==
  Truthy(o.target_price) /\ price <= o.target_price

\* Engine._evaluate, case 'take_profit'.
TakeProfitCond(o, price) ==
  /\ Truthy(o.entry_price) /\ Truthy(o.target_multiplier)
  /\ price >= o.entry_price * o.target_multiplier

\* Engine._evaluate, case 'stop_loss'.
StopLossCond(o, price) ==
  Truthy(o.target_price) /\ price <= o.target_price

\* Engine._evaluate, case 'trailing_stop': "Update peak".
NeedsPeakUpdate(peak, price) ==
  ~Truthy(peak) \/ price > peak

\* Engine._evaluate, case 'trailing_stop': "Check trigger".
TrailingStopCond(o, peak, price) ==
  /\ Truthy(peak) /\ Truthy(o.trail_percent)
  /\ price * 100 <= peak * (100 - o.trail_percent)

\* shouldTrigger at the end of the switch of Engine._evaluate; peak is the
\* object's peak_price when the check runs.
ShouldTrigger(o, peak, price) ==
  CASE o.order_type = "limit_buy" -> LimitBuyCond(o, price)
    [] o.order_type = "take_profit" -> TakeProfitCond(o, price)
    [] o.order_type = "stop_loss" -> StopLossCond(o, price)
    [] o.order_type = "trailing_stop" -> TrailingStopCond(o, peak, price)
    [] OTHER -> FALSE

\* shouldFill of the earlier Engine.evaluateOrder (src/src/engine.js): its
\* limit_buy case compares against target_price without testing it first, and
\* null compares as 0.
EvaluateOrderLegacy(o, peak, price) ==
  /\ Truthy(price) /\ price > 0
  /\ CASE o.order_type = "limit_buy" -> price <= o.target_price
       [] o.order_type = "take_profit" -> TakeProfitCond(o, price)
       [] o.order_type = "stop_loss" -> StopLossCond(o, price)
       [] o.order_type = "trailing_stop" -> TrailingStopCond(o, peak, price)
       [] OTHER -> FALSE

\* Executor.getTokenBalance: a thrown error, or the balance (1 stands for any
\* positive amount).  A response without result.value counts as no accounts.
GetTokenBalance(resp) ==
  CASE resp = "network_error" -> "throw"
    [] resp = "accounts_positive" -> "positive"
    [] OTHER -> "zero"

\* ------------------------------------------------------------------- tasks

ExecPcs == {"balance", "build", "fill", "backoff", "failZero", "failFinal"}

Put(tsks, x) == tsks (+) SetToBag({x})
Take(tsks, x) == tsks (-) SetToBag({x})
Suspended == BagToSet(tasks)

\* The number of calls of _execute that are suspended.
Executions ==
  BagCardinality([x \in {y \in Suspended : y.pc \in ExecPcs} |-> tasks[x]])

\* An evaluation suspended at `await db.updatePeakPrice`.  peak = 0 while the
\* object it evaluates is the one in Engine.orders; once that object has left
\* Engine.orders no tick reaches it any more, and peak holds its peak_price.
EvalTask(price) ==
  [pc |-> "peakWrite", price |-> price, peak |-> 0, attempt |-> 0, err |-> "none"]

\* The first await of an attempt of Engine._execute.  (currentPrice is only
\* passed on to the event and to fill_price, which are not followed here, and
\* the order object is only read for its fixed fields.)
AttemptTask(attempt) ==
  [pc |-> IF order.order_type = "limit_buy" THEN "build" ELSE "balance",
   price |-> 0, peak |-> 0, attempt |-> attempt, err |-> "none"]

\* A variant of the read below that takes the peak from the store, as if a
\* failed write had undone the assignment: the trigger check after a failed
\* peak write tells the two apart.
PeakOfStore(task) == dbPeak

\* order.peak_price as a suspended evaluation reads it.
PeakOf(task) == IF task.peak = 0 THEN memPeak ELSE task.peak

DetachTask(x) ==
  IF x.pc = "peakWrite" /\ x.peak = 0 THEN [x EXCEPT !.peak = memPeak] ELSE x

\* The object leaves Engine.orders: suspended evaluations keep their reference.
Detach(tsks) == BagOfAll(DetachTask, tsks)

\* ------------------------------------------- the active set and the feed

\* The ids of the orders that may be created, in the order of creation.
Ids == {1, 2, 3}

Tokens == {"A", "B"}

\* The order in which PriceMonitor._poll lists the watched tokens.
TokenList == <<"A", "B">>

\* Prices the Jupiter API may report for a token; 0: the token is not in
\* its response.
Quotes == {0, 10, 15}

\* The orders of the second part: ids are given in the order of creation,
\* the first two on token A, the others on token B, all limit buys; the first
\* waits for a price no quote reaches.
TokenOf(id) == IF id <= 2 THEN "A" ELSE "B"

BookOrder(id) == NewOrder("limit_buy", IF id = 1 THEN 9 ELSE 12, 0, 0, 0)

Range(seq) == { seq[i] : i \in 1 .. Len(seq) }

\* Entries of PriceMonitor.prices; price 0 is null.
NoEntry == [has |-> FALSE, price |-> 0, error |-> "none"]
NotIndexed == [has |-> TRUE, price |-> 0, error |-> "not_indexed"]
Priced(p) == [has |-> TRUE, price |-> p, error |-> "none"]

Did(op, id, found) == [op |-> op, id |-> id, found |-> found]

InitBook ==
  /\ rows = [id \in Ids |-> "none"]
  /\ orders = << >>
  /\ executingIds = {}
  /\ running = {}
  /\ watching = {}
  /\ prices = [t \in Tokens |-> NoEntry]
  /\ quote = [t \in Tokens |-> 10]
  /\ poll = [pc |-> "idle", tokens |-> << >>, i |-> 1, ok |-> FALSE,
             asked |-> [t \in Tokens |-> 0]]
  /\ fresh = [pc |-> "idle", ids |-> {}]
  /\ pending = [adding |-> {}, removing |-> {}]
  /\ did = Did("other", 0, FALSE)

\* ------------------------------------------------ executor and front door

\* Trade sizes in SOL, in a unit of which 50 basis points are a whole number.
Notionals == {200, 400, 600, 800}

\* feeSol of the swap descriptor: solAmount * (PLATFORM_FEE_BPS / 10000) in
\* buildBuy, outSol * (PLATFORM_FEE_BPS / 10000) in buildSell.
FeeSol(notional) == (notional * PLATFORM_FEE_BPS) \div 10000

\* No build is under way.
NoSwap ==
  [pc |-> "idle", type |-> "none", amount |-> 0, outAmount |-> 0,
   platformFeeBps |-> 0, feeAccount |-> FALSE, feeSol |-> 0, fee_sol |-> 0]

\* The SOL side of a swap: the input of a buy, the output of a sell.
Notional(b) == IF b.type = "buy" THEN b.amount ELSE b.outAmount

\* The Executor constructor: this.feeWallet = process.env.FEE_WALLET || null.
InitExecutor(wallets) ==
  /\ feeWallet \in wallets
  /\ built = NoSwap

\* The POST /api/orders requests of one wallet that may be under way.
Requests == {1, 2, 3, 4}

\* What the listeners of 'priceUpdate' heard in the last step: the events, as
\* records [token, price], and the step that emitted them.
Heard(op, events) == [op |-> op, events |-> events]
Silence == Heard("none", {})

\* The two price monitors of price-monitor.js with a WebSocket: the first
\* class (connect, reconnectDelay) and the second (connectHelius,
\* _wsReconnectDelay).
Monitors == {"connect", "connectHelius"}

\* The constructor: no socket, no reconnect timer (timer: the delay it was set
\* with, 0 = none), reconnectDelay = 1000.
NoSocket == [socket |-> "none", timer |-> 0, reconnectDelay |-> RECONNECT_FLOOR]

\* No call of _poll has been made.  started: the calls made so far; flying:
\* those suspended at their fetch; stamp: per token, the number of the call
\* that stored the entry of PriceMonitor.prices (0 = no entry).
NoCycles == [started |-> 0, flying |-> {}, stamp |-> [t \in Tokens |-> 0]]

\* The wallet has no order and no request yet; the feed's listeners have
\* heard nothing; no socket and no poll yet.
InitSide ==
  /\ door = [active |-> 0, post |-> [r \in Requests |-> "idle"]]
  /\ heard = Silence
  /\ ws = [m \in Monitors |-> NoSocket]
  /\ cycles = NoCycles

\* ------------------------------------------------------------------- Init

InitEngine(configs) ==
  /\ order \in configs
  /\ dbStatus = "active"
  /\ dbReason = "none"
  /\ dbPeak = 0
  /\ inOrders = TRUE
  /\ memPeak = 0
  /\ executing = FALSE
  /\ tasks = EmptyBag
  /\ reload = [pc |-> "idle", active |-> FALSE, peak |-> 0]
  /\ cancelPc = "idle"
  /\ ticks = 0
  /\ log = [emits |-> 0, finalFailed |-> FALSE, peak |-> 0, idleCancel |-> FALSE]
  /\ obs = [price |-> 0, trig |-> FALSE, fresh |-> FALSE, seen |-> 0,
            maxSeen |-> 0, triggered |-> FALSE]

InitWith(configs) ==
  /\ InitEngine(configs)
  /\ InitBook
  /\ InitExecutor({FALSE})
  /\ InitSide

Init == InitWith(OrderConfigs)

\* ----------------------------------------------------------------- engine

\* A variant of the handler below without its test of the price.
OnPriceUpdateUnchecked(price) ==
  /\ ticks < MaxTicks
  /\ ticks' = ticks + 1
  /\ IF ~inOrders \/ executing
     THEN UNCHANGED <<memPeak, tasks, executing>>
     ELSE IF order.order_type = "trailing_stop" /\ NeedsPeakUpdate(memPeak, price)
          THEN /\ BagCardinality(tasks) < MaxTasks
               /\ memPeak' = price
               /\ tasks' = Put(tasks, EvalTask(price))
               /\ UNCHANGED executing
          ELSE /\ UNCHANGED memPeak
               /\ IF ShouldTrigger(order, memPeak, price)
                  THEN /\ BagCardinality(tasks) < MaxTasks
                       /\ executing' = TRUE
                       /\ tasks' = Put(tasks, AttemptTask(1))
                  ELSE UNCHANGED <<tasks, executing>>
  /\ UNCHANGED <<order, dbStatus, dbReason, dbPeak, inOrders, reload, cancelPc>>

\* Engine._onPriceUpdate, and for each relevant order Engine._evaluate up to
\* its first await (and Engine._execute up to its first await on a trigger).
OnPriceUpdate(price) ==
  /\ ticks < MaxTicks
  /\ ticks' = ticks + 1
  /\ IF ~Truthy(price) \/ price <= 0 \/ ~inOrders \/ executing
     THEN \* no relevant order, or the in-flight guard returns at once
          UNCHANGED <<memPeak, tasks, executing>>
     ELSE IF order.order_type = "trailing_stop" /\ NeedsPeakUpdate(memPeak, price)
          THEN \* order.peak_price = currentPrice; await db.updatePeakPrice
               /\ BagCardinality(tasks) < MaxTasks
               /\ memPeak' = price
               /\ tasks' = Put(tasks, EvalTask(price))
               /\ UNCHANGED executing
          ELSE /\ UNCHANGED memPeak
               /\ IF ShouldTrigger(order, memPeak, price)
                  THEN /\ BagCardinality(tasks) < MaxTasks
                       /\ executing' = TRUE
                       /\ tasks' = Put(tasks, AttemptTask(1))
                  ELSE UNCHANGED <<tasks, executing>>
  /\ UNCHANGED <<order, dbStatus, dbReason, dbPeak, inOrders, reload, cancelPc>>

\* Engine._evaluate after `await db.updatePeakPrice(...).catch(() => {})`:
\* the write has landed in the store (ok) or failed; then "Check trigger".
PeakWriteDone(t, ok) ==
  /\ t.pc = "peakWrite"
  /\ dbPeak' = IF ok THEN t.price ELSE dbPeak
  /\ IF ShouldTrigger(order, PeakOf(t), t.price)
     THEN /\ tasks' = Put(Take(tasks, t), AttemptTask(1))
          /\ executing' = TRUE
     ELSE /\ tasks' = Take(tasks, t)
          /\ UNCHANGED executing
  /\ UNCHANGED <<order, dbStatus, dbReason, inOrders, memPeak, reload, cancelPc,
                 ticks>>

\* The catch block of Engine._execute: the final attempt awaits
\* db.failOrder(order.id, e.message), any other awaits the backoff timer.
Catch(t, cause) ==
  Put(Take(tasks, t),
      IF t.attempt = MAX_RETRIES
      THEN [t EXCEPT !.pc = "failFinal", !.err = cause]
      ELSE [t EXCEPT !.pc = "backoff", !.err = "none"])

\* A suspended call moves on to its next await.
Goto(t, pc) == Put(Take(tasks, t), [t EXCEPT !.pc = pc])

\* Engine._execute, sell path, after `await this.executor.getTokenBalance`.
BalanceDone(t, resp) ==
  /\ t.pc = "balance"
  /\ tasks' = CASE GetTokenBalance(resp) = "throw" -> Catch(t, "balance")
                [] GetTokenBalance(resp) = "zero" ->
                     Goto(t, "failZero")
                [] OTHER -> Goto(t, "build")
  /\ UNCHANGED <<order, dbStatus, dbReason, dbPeak, inOrders, memPeak, executing,
                 reload, cancelPc, ticks>>

\* Engine._execute after `await this.executor.buildBuy / buildSell`: on
\* success the 'orderTriggered' event is emitted, then db.fillOrder awaited.
BuildDone(t, ok) ==
  /\ t.pc = "build"
  /\ IF ok
     THEN tasks' = Goto(t, "fill")
     ELSE tasks' = Catch(t, "build")
  /\ UNCHANGED <<order, dbStatus, dbReason, dbPeak, inOrders, memPeak, executing,
                 reload, cancelPc, ticks>>

\* A variant of removeOrder that leaves Engine._executing alone.
RemoveOrderKeepingGuard(after) ==
  /\ inOrders' = FALSE
  /\ memPeak' = 0
  /\ UNCHANGED executing
  /\ tasks' = Detach(after)

\* Engine.removeOrder: the order leaves Engine.orders and Engine._executing.
\* after: the suspended calls once the caller has moved on.
RemoveOrder(after) ==
  /\ inOrders' = FALSE
  /\ memPeak' = 0
  /\ executing' = FALSE
  /\ tasks' = Detach(after)

\* Engine._execute after `await db.fillOrder(...)`: db.fillOrder updates the
\* row by id alone; on success removeOrder and return.
FillDone(t, ok) ==
  /\ t.pc = "fill"
  /\ IF ok
     THEN /\ dbStatus' = "filled"
          /\ RemoveOrder(Take(tasks, t))
     ELSE /\ tasks' = Catch(t, "fillOrder")
          /\ UNCHANGED <<dbStatus, inOrders, memPeak, executing>>
  /\ UNCHANGED <<order, dbReason, dbPeak, reload, cancelPc, ticks>>

\* Engine._execute, zero balance, after `await db.failOrder(order.id,
\* 'no_token_balance')`: on success removeOrder and return; the call is inside
\* the try block, so a failed write is caught like a failed attempt.
FailZeroDone(t, ok) ==
  /\ t.pc = "failZero"
  /\ IF ok
     THEN /\ dbStatus' = "failed"
          /\ dbReason' = "no_token_balance"
          /\ RemoveOrder(Take(tasks, t))
     ELSE /\ tasks' = Catch(t, "failOrder")
          /\ UNCHANGED <<dbStatus, dbReason, inOrders, memPeak, executing>>
  /\ UNCHANGED <<order, dbPeak, reload, cancelPc, ticks>>

\* Engine._execute after the backoff timer: the next attempt begins.
BackoffDone(t) ==
  /\ t.pc = "backoff"
  /\ tasks' = Put(Take(tasks, t), AttemptTask(t.attempt + 1))
  /\ UNCHANGED <<order, dbStatus, dbReason, dbPeak, inOrders, memPeak, executing,
                 reload, cancelPc, ticks>>

\* Engine._execute, final attempt, after
\* `await db.failOrder(order.id, e.message).catch(() => {})`: removeOrder, the
\* loop ends and the guard is cleared, whether or not the write succeeded.
FailFinalDone(t, ok) ==
  /\ t.pc = "failFinal"
  /\ IF ok
     THEN dbStatus' = "failed" /\ dbReason' = t.err
     ELSE UNCHANGED <<dbStatus, dbReason>>
  /\ RemoveOrder(Take(tasks, t))
  /\ UNCHANGED <<order, dbPeak, reload, cancelPc, ticks>>

\* Engine._reloadOrders up to `await db.getActiveOrders()`: the store answers
\* with the rows that are active now, or the read fails and the pass ends in
\* its catch block.
ReloadRead(ok) ==
  /\ reload.pc = "idle"
  /\ IF ok
     THEN reload' = [pc |-> "apply", active |-> (dbStatus = "active"),
                     peak |-> IF dbStatus = "active" THEN dbPeak ELSE 0]
     ELSE UNCHANGED reload
  /\ UNCHANGED <<order, dbStatus, dbReason, dbPeak, inOrders, memPeak, executing,
                 tasks, cancelPc, ticks>>

\* Engine._reloadOrders after the await: rows not in Engine.orders are pushed
\* (as the objects the store returned), entries whose id is not among the
\* rows are filtered out.
ReloadApply ==
  /\ reload.pc = "apply"
  /\ reload' = [pc |-> "idle", active |-> FALSE, peak |-> 0]
  /\ IF reload.active
     THEN IF ~inOrders
          THEN /\ inOrders' = TRUE
               /\ memPeak' = reload.peak
               /\ UNCHANGED tasks
          ELSE UNCHANGED <<inOrders, memPeak, tasks>>
     ELSE /\ inOrders' = FALSE
          /\ memPeak' = 0
          /\ tasks' = Detach(tasks)
  /\ UNCHANGED <<order, dbStatus, dbReason, dbPeak, executing, cancelPc, ticks>>

\* ------------------------------------------------------------- front door

\* DELETE /api/orders/:id up to `await db.cancelOrder(id, wallet)`:
\* db.cancelOrder updates the row only where status = 'active' and returns it.
CancelRequest ==
  /\ cancelPc = "idle"
  /\ dbStatus = "active"
  /\ dbStatus' = "cancelled"
  /\ cancelPc' = "remove"
  /\ UNCHANGED <<order, dbReason, dbPeak, inOrders, memPeak, executing, tasks,
                 reload, ticks>>

\* DELETE /api/orders/:id after the await: engine.removeOrder(id).
CancelRemove ==
  /\ cancelPc = "remove"
  /\ cancelPc' = "done"
  /\ RemoveOrder(tasks)
  /\ UNCHANGED <<order, dbStatus, dbReason, dbPeak, reload, ticks>>

\* ------------------------------------------------------------------- Next

Unobserved == UNCHANGED <<log, obs, bookVars, sideVars>>

Next ==
  \/ \E p \in TickPrices : OnPriceUpdate(p) /\ Unobserved
  \/ \E t \in Suspended, ok \in BOOLEAN : PeakWriteDone(t, ok) /\ Unobserved
  \/ \E t \in Suspended, r \in RpcResponses : BalanceDone(t, r) /\ Unobserved
  \/ \E t \in Suspended, ok \in BOOLEAN : BuildDone(t, ok) /\ Unobserved
  \/ \E t \in Suspended, ok \in BOOLEAN : FillDone(t, ok) /\ Unobserved
  \/ \E t \in Suspended, ok \in BOOLEAN : FailZeroDone(t, ok) /\ Unobserved
  \/ \E t \in Suspended : BackoffDone(t) /\ Unobserved
  \/ \E t \in Suspended, ok \in BOOLEAN : FailFinalDone(t, ok) /\ Unobserved
  \/ \E ok \in BOOLEAN : ReloadRead(ok) /\ Unobserved
  \/ ReloadApply /\ Unobserved
  \/ CancelRequest /\ Unobserved
  \/ CancelRemove /\ Unobserved

Spec == Init /\ [][Next]_vars

\* --------------------------------------------------- the run with its events

\* this.emit('orderTriggered', ...) runs when the build has succeeded.
Emitted(ok) ==
  log' = IF ok THEN [log EXCEPT !.emits = Min(log.emits + 1, EmitCap)] ELSE log

\* An execution has gone through its final failed attempt.
FinalFailed == log' = [log EXCEPT !.finalFailed = TRUE]

\* The highest peak_price the order's object in Engine.orders has held.
PeakHeld == log' = [log EXCEPT !.peak = Max(log.peak, memPeak')]

\* The cancel handler's removeOrder ran while no evaluation or execution of
\* the order was under way.
CancelledIdle ==
  log' = [log EXCEPT !.idleCancel = (tasks = EmptyBag /\ ~executing)]

NextHist ==
  \/ \E p \in TickPrices : OnPriceUpdate(p) /\ PeakHeld /\ UNCHANGED <<obs, bookVars, sideVars>>
  \/ \E t \in Suspended, ok \in BOOLEAN : PeakWriteDone(t, ok) /\ Unobserved
  \/ \E t \in Suspended, r \in RpcResponses : BalanceDone(t, r) /\ Unobserved
  \/ \E t \in Suspended, ok \in BOOLEAN :
       BuildDone(t, ok) /\ Emitted(ok) /\ UNCHANGED <<obs, bookVars, sideVars>>
  \/ \E t \in Suspended, ok \in BOOLEAN : FillDone(t, ok) /\ Unobserved
  \/ \E t \in Suspended, ok \in BOOLEAN : FailZeroDone(t, ok) /\ Unobserved
  \/ \E t \in Suspended : BackoffDone(t) /\ Unobserved
  \/ \E t \in Suspended, ok \in BOOLEAN :
       FailFinalDone(t, ok) /\ FinalFailed /\ UNCHANGED <<obs, bookVars, sideVars>>
  \/ \E ok \in BOOLEAN : ReloadRead(ok) /\ Unobserved
  \/ ReloadApply /\ Unobserved
  \/ CancelRequest /\ Unobserved
  \/ CancelRemove /\ CancelledIdle /\ UNCHANGED <<obs, bookVars, sideVars>>

SpecHist == Init /\ [][NextHist]_vars

\* ------------------------------------------- ticks processed one at a time

\* No evaluation or execution of an earlier price notification is suspended.
Quiescent == tasks = EmptyBag

\* What an observer of the engine sees of a trigger decision: the price of
\* the tick decided, whether an execution began (trig), whether the order was
\* active in the store and had never triggered before (fresh), and the
\* highest price notified so far (seen).
Decision(price, trig, highest) ==
  [price |-> price, trig |-> trig,
   fresh |-> (dbStatus = "active" /\ ~obs.triggered),
   seen |-> highest, maxSeen |-> highest,
   triggered |-> (obs.triggered \/ trig)]

\* A tick is decided at once unless the evaluation is suspended at the peak
\* write (a call is then waiting at "peakWrite") or was never entered.
ObserveTick(price) ==
  LET highest == Max(obs.maxSeen, price)
      entered == Truthy(price) /\ price > 0 /\ inOrders /\ ~executing
      suspended == \E x \in BagToSet(tasks') : x.pc = "peakWrite"
  IN obs' = IF entered /\ ~suspended
            THEN Decision(price, executing', highest)
            ELSE [obs EXCEPT !.maxSeen = highest]

ObservePeakWrite(t) ==
  obs' = Decision(t.price, \E x \in BagToSet(tasks') : x.pc \in ExecPcs,
                  obs.maxSeen)

NextSeq ==
  \/ \E p \in SeqPrices :
       Quiescent /\ OnPriceUpdate(p) /\ ObserveTick(p) /\ UNCHANGED <<log, bookVars, sideVars>>
  \/ \E t \in Suspended, ok \in BOOLEAN :
       PeakWriteDone(t, ok) /\ ObservePeakWrite(t) /\ UNCHANGED <<log, bookVars, sideVars>>
  \/ \E t \in Suspended, r \in RpcResponses : BalanceDone(t, r) /\ Unobserved
  \/ \E t \in Suspended, ok \in BOOLEAN : BuildDone(t, ok) /\ Unobserved
  \/ \E t \in Suspended, ok \in BOOLEAN : FillDone(t, ok) /\ Unobserved
  \/ \E t \in Suspended, ok \in BOOLEAN : FailZeroDone(t, ok) /\ Unobserved
  \/ \E t \in Suspended : BackoffDone(t) /\ Unobserved
  \/ \E t \in Suspended, ok \in BOOLEAN : FailFinalDone(t, ok) /\ Unobserved
  \/ \E ok \in BOOLEAN : ReloadRead(ok) /\ Unobserved
  \/ ReloadApply /\ Unobserved
  \/ CancelRequest /\ Unobserved
  \/ CancelRemove /\ Unobserved

SpecSeq == InitWith(SeqOrderConfigs) /\ [][NextSeq]_vars

\* ------------------------------------- the active set, watching, polling

EngineIdle == UNCHANGED <<engineVars, sideVars>>

InOrders(id) == id \in Range(orders)

\* A variant of watch that only takes a token while nothing is watched.
WatchFirstOnly(w, tokenAddress) == IF w = {} THEN {tokenAddress} ELSE w

\* PriceMonitor.watch.
Watch(w, tokenAddress) ==
  IF tokenAddress \in w THEN w ELSE w \cup {tokenAddress}

\* PriceMonitor.unwatch.
Unwatch(tokenAddress) ==
  /\ watching' = watching \ {tokenAddress}
  /\ prices' = [prices EXCEPT ![tokenAddress] = NoEntry]

\* Variants of the helpers below, used to show that the properties of the
\* active set tell them apart.
OthersNone(rest, orderId) == {}
PushAlways(seq, id) == Append(seq, id)
KeptAll(seq, ids) == seq
BatchOverlapping(tokens, i) == SubSeq(tokens, i, Min(i + BatchSize, Len(tokens)))
WatchListPriced == SelectSeq(TokenList, LAMBDA t : t \in watching /\ prices[t].has)
EmitsOnChangeOnly(tokenAddress, newPrice) ==
  prices[tokenAddress].has /\ prices[tokenAddress].price # newPrice
\* A loop over the relevant orders that ends with the first execution started.
TriggeredFirstOnly(notified, priceOf) ==
  LET hit == { id \in Range(orders) :
                 /\ TokenOf(id) \in notified
                 /\ Truthy(priceOf[TokenOf(id)]) /\ priceOf[TokenOf(id)] > 0
                 /\ id \notin executingIds
                 /\ ShouldTrigger(BookOrder(id), 0, priceOf[TokenOf(id)]) }
  IN { id \in hit : \A y \in hit : id <= y }

\* Engine.removeOrder: the remaining orders on the token of the removed one.
Others(rest, orderId) ==
  { x \in Range(rest) : TokenOf(x) = TokenOf(orderId) }

\* if (!this.orders.find(o => o.id === order.id)) this.orders.push(order)
Push(seq, id) == IF id \in Range(seq) THEN seq ELSE Append(seq, id)

\* this.orders.filter(o => activeIds.has(o.id))
Kept(seq, ids) == SelectSeq(seq, LAMBDA x : x \in ids)

\* Engine.removeOrder(orderId).
RemoveOrderById(orderId) ==
  LET found == InOrders(orderId)
      rest == SelectSeq(orders, LAMBDA x : x # orderId)
      others == Others(rest, orderId)
  IN /\ orders' = rest
     /\ executingIds' = executingIds \ {orderId}
     /\ IF found /\ others = {}
        THEN Unwatch(TokenOf(orderId))
        ELSE UNCHANGED <<watching, prices>>

\* POST /api/orders up to `await db.createOrder(...)`: the store has the new
\* active row.  Ids are given in the order of creation.
CreateOrder(id) ==
  /\ rows[id] = "none"
  /\ \A x \in Ids : x < id => rows[x] # "none"
  /\ rows' = [rows EXCEPT ![id] = "active"]
  /\ pending' = [pending EXCEPT !.adding = @ \cup {id}]
  /\ UNCHANGED <<orders, executingIds, running, watching, prices, quote, poll,
                 fresh>>

\* POST /api/orders after the await: engine.addOrder(order).
AddOrder(id) ==
  /\ id \in pending.adding
  /\ pending' = [pending EXCEPT !.adding = @ \ {id}]
  /\ orders' = Push(orders, id)
  /\ watching' = IF InOrders(id) THEN watching
                 ELSE Watch(watching, TokenOf(id))
  /\ UNCHANGED <<rows, executingIds, running, prices, quote, poll, fresh>>

\* DELETE /api/orders/:id up to `await db.cancelOrder(...)`: the active row
\* becomes cancelled.
CancelOrder(id) ==
  /\ rows[id] = "active"
  /\ id \notin pending.removing
  /\ rows' = [rows EXCEPT ![id] = "closed"]
  /\ pending' = [pending EXCEPT !.removing = @ \cup {id}]
  /\ UNCHANGED <<orders, executingIds, running, watching, prices, quote, poll,
                 fresh>>

\* DELETE /api/orders/:id after the await: engine.removeOrder(id).
CancelRemoveOrder(id) ==
  /\ id \in pending.removing
  /\ pending' = [pending EXCEPT !.removing = @ \ {id}]
  /\ RemoveOrderById(id)
  /\ UNCHANGED <<rows, running, quote, poll, fresh>>

\* A variant of the read below in which a failed read goes on as an empty
\* list of rows.
ReloadOrdersReadEmpty(ok) ==
  /\ fresh.pc = "idle"
  /\ fresh' = [pc |-> "apply",
               ids |-> IF ok THEN { id \in Ids : rows[id] = "active" } ELSE {}]
  /\ UNCHANGED <<rows, orders, executingIds, running, watching, prices, quote,
                 poll, pending>>

\* Engine._reloadOrders up to `await db.getActiveOrders()`; a thrown error
\* ends the pass in its catch block.
ReloadOrdersRead(ok) ==
  /\ fresh.pc = "idle"
  /\ fresh' = IF ok
              THEN [pc |-> "apply", ids |-> { id \in Ids : rows[id] = "active" }]
              ELSE fresh
  /\ UNCHANGED <<rows, orders, executingIds, running, watching, prices, quote,
                 poll, pending>>

\* The rows of a snapshot in the order the store returns them (created_at).
RECURSIVE Pushed(_, _)
Pushed(seq, ids) ==
  IF ids = {} THEN seq
  ELSE LET id == CHOOSE x \in ids : \A y \in ids : x <= y
       IN Pushed(Push(seq, id), ids \ {id})

\* Engine._reloadOrders after the await: push the rows that are missing, keep
\* only the entries whose id is among the rows, watch the tokens of the
\* pushed rows.
ReloadOrdersApply ==
  /\ fresh.pc = "apply"
  /\ LET missing == fresh.ids \ Range(orders)
         newTokens == { TokenOf(id) : id \in missing }
     IN /\ orders' = Kept(Pushed(orders, fresh.ids), fresh.ids)
        /\ watching' = watching \cup newTokens
  /\ fresh' = [pc |-> "idle", ids |-> {}]
  /\ UNCHANGED <<rows, executingIds, running, prices, quote, pending, poll>>

\* The watched tokens as PriceMonitor._poll lists them.
WatchList == SelectSeq(TokenList, LAMBDA t : t \in watching)

\* tokens.slice(i, i + BATCH), with i counted from 1.
Batch(tokens, i) == SubSeq(tokens, i, Min(i + BatchSize - 1, Len(tokens)))

\* PriceMonitor._poll up to the fetch of its first batch.
PollStart ==
  /\ poll.pc = "idle"
  /\ IF watching = {}
     THEN UNCHANGED poll
     ELSE poll' = [pc |-> "fetch", tokens |-> WatchList, i |-> 1,
                   ok |-> FALSE, asked |-> [t \in Tokens |-> 0]]
  /\ UNCHANGED <<rows, orders, executingIds, running, watching, prices, quote,
                 fresh, pending>>

\* old ? old.price : null
OldPrice(tokenAddress) ==
  IF prices[tokenAddress].has THEN prices[tokenAddress].price ELSE 0

\* PriceMonitor._poll emits 'priceUpdate' for a token of the response: on its
\* first price and on a changed price.
EmitsPriceUpdate(tokenAddress, newPrice) ==
  OldPrice(tokenAddress) = 0 \/ OldPrice(tokenAddress) # newPrice

\* Engine._onPriceUpdate for the notified tokens: the orders whose evaluation
\* calls _execute (not in _executing, condition met at the token's price).
Triggered(notified, priceOf) ==
  { id \in Range(orders) :
      /\ TokenOf(id) \in notified
      /\ Truthy(priceOf[TokenOf(id)]) /\ priceOf[TokenOf(id)] > 0
      /\ id \notin executingIds
      /\ ShouldTrigger(BookOrder(id), 0, priceOf[TokenOf(id)]) }

\* Engine._onPriceUpdate({token, price}) with the executions it starts, as
\* the feed's notification reaches the engine.
PriceUpdate(tokenAddress, price) ==
  LET started == Triggered({tokenAddress}, [t \in Tokens |-> price])
  IN /\ executingIds' = executingIds \cup started
     /\ running' = running \cup started
     /\ UNCHANGED <<rows, orders, watching, prices, quote, poll, fresh, pending>>

\* PriceMonitor._poll from the response of a batch to the fetch of the next:
\* the prices of the response are stored and emitted, Engine._onPriceUpdate
\* evaluates the orders of each emitted token and starts the executions of
\* those that trigger, and tokens missing from the response are marked.  A
\* response that is not ok, has no data or throws only moves on.
PollResponse(ok) ==
  /\ poll.pc = "fetch"
  /\ LET batch == Range(Batch(poll.tokens, poll.i))
         next == poll.i + BatchSize
         emitted == { t \in batch : quote[t] > 0 /\ EmitsPriceUpdate(t, quote[t]) }
         triggered == Triggered(emitted, quote)
     IN /\ poll' = [poll EXCEPT
                      !.pc = IF next > Len(poll.tokens) THEN "idle" ELSE "fetch",
                      !.i = IF next > Len(poll.tokens) THEN 1 ELSE next,
                      !.ok = ok,
                      !.asked = [t \in Tokens |->
                                   IF t \in batch THEN @[t] + 1 ELSE @[t]]]
        /\ IF ok
           THEN /\ prices' = [t \in Tokens |->
                                IF t \notin batch THEN prices[t]
                                ELSE IF quote[t] > 0 THEN Priced(quote[t])
                                ELSE IF ~prices[t].has THEN NotIndexed
                                ELSE prices[t]]
                /\ executingIds' = executingIds \cup triggered
                /\ running' = running \cup triggered
           ELSE UNCHANGED <<prices, executingIds, running>>
  /\ UNCHANGED <<rows, orders, watching, quote, fresh, pending>>

\* Engine._execute ends, filled or failed for good: the store write has
\* closed the row (or failed, for the swallowed final failOrder), and
\* removeOrder(order.id) runs.
ExecutionEnds(id, wrote) ==
  /\ id \in running
  /\ running' = running \ {id}
  /\ rows' = IF wrote THEN [rows EXCEPT ![id] = "closed"] ELSE rows
  /\ RemoveOrderById(id)
  /\ UNCHANGED <<quote, poll, fresh, pending>>

\* The price the API reports for a token changes.
QuoteMoves(tokenAddress, p) ==
  /\ quote[tokenAddress] # p
  /\ quote' = [quote EXCEPT ![tokenAddress] = p]
  /\ UNCHANGED <<rows, orders, executingIds, running, watching, prices, poll,
                 fresh, pending>>

\* The engine call a step of SpecBook makes.
Done(op, id, found) == did' = Did(op, id, found)
Other == did' = Did("other", 0, FALSE)

\* The active set and the watch set, with the feed reduced to the price
\* notifications it delivers.
NextBook ==
  \/ \E id \in Ids : CreateOrder(id) /\ Other /\ EngineIdle
  \/ \E id \in Ids :
       AddOrder(id) /\ Done("addOrder", id, InOrders(id)) /\ EngineIdle
  \/ \E id \in Ids : CancelOrder(id) /\ Other /\ EngineIdle
  \/ \E id \in Ids :
       CancelRemoveOrder(id) /\ Done("removeOrder", id, InOrders(id))
       /\ EngineIdle
  \/ \E ok \in BOOLEAN : ReloadOrdersRead(ok) /\ Other /\ EngineIdle
  \/ ReloadOrdersApply
       /\ Done("reloadOrders", 0, fresh.ids \ Range(orders) # {}) /\ EngineIdle
  \/ \E t \in Tokens, p \in Quotes : PriceUpdate(t, p) /\ Other /\ EngineIdle
  \/ \E id \in Ids, wrote \in BOOLEAN :
       ExecutionEnds(id, wrote) /\ Done("removeOrder", id, InOrders(id))
       /\ EngineIdle

SpecBook == InitWith({BookOrder(1)}) /\ [][NextBook]_vars

\* The same, with the reconciliation passes whose read failed on record.
NextReload ==
  \/ \E id \in Ids : CreateOrder(id) /\ Other /\ EngineIdle
  \/ \E id \in Ids :
       AddOrder(id) /\ Done("addOrder", id, InOrders(id)) /\ EngineIdle
  \/ \E id \in Ids : CancelOrder(id) /\ Other /\ EngineIdle
  \/ \E id \in Ids :
       CancelRemoveOrder(id) /\ Done("removeOrder", id, InOrders(id))
       /\ EngineIdle
  \/ ReloadOrdersRead(TRUE) /\ Other /\ EngineIdle
  \/ ReloadOrdersRead(FALSE) /\ Done("reloadError", 0, FALSE) /\ EngineIdle
  \/ ReloadOrdersApply
       /\ Done("reloadOrders", 0, fresh.ids \ Range(orders) # {}) /\ EngineIdle
  \/ \E t \in Tokens, p \in Quotes : PriceUpdate(t, p) /\ Other /\ EngineIdle
  \/ \E id \in Ids, wrote \in BOOLEAN :
       ExecutionEnds(id, wrote) /\ Done("removeOrder", id, InOrders(id))
       /\ EngineIdle

SpecReload == InitWith({BookOrder(1)}) /\ [][NextReload]_vars

\* The feed's polling, with the front door adding and cancelling orders.
NextFeed ==
  \/ \E id \in Ids : CreateOrder(id) /\ UNCHANGED did /\ EngineIdle
  \/ \E id \in Ids : AddOrder(id) /\ UNCHANGED did /\ EngineIdle
  \/ \E id \in Ids : CancelOrder(id) /\ UNCHANGED did /\ EngineIdle
  \/ \E id \in Ids : CancelRemoveOrder(id) /\ UNCHANGED did /\ EngineIdle
  \/ PollStart /\ UNCHANGED did /\ EngineIdle
  \/ \E ok \in BOOLEAN : PollResponse(ok) /\ UNCHANGED did /\ EngineIdle
  \/ \E t \in Tokens, p \in Quotes : QuoteMoves(t, p) /\ UNCHANGED did /\ EngineIdle

\* The batch of token t is answered.
PollAnswers(t) ==
  /\ t \in Range(Batch(poll.tokens, poll.i))
  /\ PollResponse(TRUE) /\ UNCHANGED did /\ EngineIdle

\* The poll timer keeps firing, every request is answered, and the API keeps
\* answering the requests for each token.
SpecFeed ==
  /\ InitWith({BookOrder(1)})
  /\ [][NextFeed]_vars
  /\ WF_vars(PollStart /\ UNCHANGED did /\ EngineIdle)
  /\ WF_vars(\E ok \in BOOLEAN : PollResponse(ok) /\ UNCHANGED did /\ EngineIdle)
  /\ \A t \in Tokens : SF_vars(PollAnswers(t))

\* ------------------------------------------------------ the feed on its own

\* A client of the feed calls watch / unwatch (Engine.addOrder, removeOrder).
WatchToken(tokenAddress) ==
  /\ watching' = Watch(watching, tokenAddress)
  /\ UNCHANGED <<rows, orders, executingIds, running, prices, quote, poll, fresh,
                 pending>>

UnwatchToken(tokenAddress) ==
  /\ Unwatch(tokenAddress)
  /\ UNCHANGED <<rows, orders, executingIds, running, quote, poll, fresh, pending>>

\* The 'priceUpdate' events PriceMonitor._poll emits for the response of the
\* batch it is waiting for.
PriceUpdates ==
  { [token |-> t, price |-> quote[t]] :
      t \in { x \in Range(Batch(poll.tokens, poll.i)) :
                quote[x] > 0 /\ EmitsPriceUpdate(x, quote[x]) } }

\* PollResponse with what the listeners hear.
PollHeard(ok) ==
  /\ PollResponse(ok)
  /\ heard' = Heard("poll", IF ok THEN PriceUpdates ELSE {})

\* `await fetch(url)` never returns: this call of _poll stays suspended for
\* good, and the interval timer goes on calling _poll.
PollHangs ==
  /\ poll.pc = "fetch"
  /\ poll' = [poll EXCEPT !.pc = "idle"]
  /\ UNCHANGED <<rows, orders, executingIds, running, watching, prices, quote,
                 fresh, pending>>

Unheard == heard' = Silence /\ UNCHANGED <<did, feeWallet, built, door, ws, cycles, engineVars>>

NextPoll ==
  \/ \E t \in Tokens : WatchToken(t) /\ Unheard
  \/ \E t \in Tokens : UnwatchToken(t) /\ Unheard
  \/ PollStart /\ Unheard
  \/ \E ok \in BOOLEAN :
       PollHeard(ok) /\ UNCHANGED <<did, feeWallet, built, door, ws, cycles, engineVars>>
  \/ PollHangs /\ Unheard
  \/ \E t \in Tokens, p \in Quotes : QuoteMoves(t, p) /\ Unheard

\* The token whose requests may go unanswered for good.
Hanging == "A"

\* A request for the batch of token t is answered.
PollHears(t) ==
  /\ t \in Range(Batch(poll.tokens, poll.i))
  /\ PollHeard(TRUE) /\ UNCHANGED <<did, feeWallet, built, door, ws, cycles, engineVars>>

\* A request is answered, or the interval timer fires while it is still out.
PollMovesOn ==
  \/ \E ok \in BOOLEAN :
       PollHeard(ok) /\ UNCHANGED <<did, feeWallet, built, door, ws, cycles, engineVars>>
  \/ PollHangs /\ Unheard

\* The interval timer keeps firing, and the API keeps answering the requests
\* for every token but the hanging one.
SpecPoll ==
  /\ InitWith({BookOrder(1)})
  /\ [][NextPoll]_vars
  /\ WF_vars(PollStart /\ Unheard)
  /\ WF_vars(PollMovesOn)
  /\ \A t \in Tokens \ {Hanging} : SF_vars(PollHears(t))

\* ------------------------------------------- ticks over several orders

\* Prices a 'priceUpdate' event may carry to the engine.
TickQuotes == Quotes \cup {9}

\* Engine._onPriceUpdate, with the event it was called for.
Tick(tokenAddress, price) ==
  /\ PriceUpdate(tokenAddress, price)
  /\ heard' = Heard("tick", {[token |-> tokenAddress, price |-> price]})

NextTick ==
  \/ \E id \in Ids : CreateOrder(id) /\ Unheard
  \/ \E id \in Ids : AddOrder(id) /\ Unheard
  \/ \E t \in Tokens, p \in TickQuotes :
       Tick(t, p) /\ UNCHANGED <<did, feeWallet, built, door, ws, cycles, engineVars>>
  \/ \E id \in Ids, wrote \in BOOLEAN : ExecutionEnds(id, wrote) /\ Unheard

SpecTick == InitWith({BookOrder(1)}) /\ [][NextTick]_vars

\* ------------------------------------------------- the executor's swap build

BookIdle == UNCHANGED <<engineVars, bookVars>>

\* Executor.buildBuy / buildSell up to the fetch of Executor.getQuote: the
\* request carries platformFeeBps only if a fee wallet is set.
BuildStart(type, amount) ==
  /\ built.pc = "idle"
  /\ built' = [NoSwap EXCEPT
                 !.pc = "quote", !.type = type, !.amount = amount,
                 !.platformFeeBps = IF feeWallet THEN PLATFORM_FEE_BPS ELSE 0]
  /\ UNCHANGED feeWallet

\* Executor.getQuote returns the quote (or throws), and
\* Executor.buildSwapTransaction sends its request: the body carries
\* feeAccount only if a fee wallet is set.
QuoteDone(ok, outAmount) ==
  /\ built.pc = "quote"
  /\ built' = IF ok
              THEN [built EXCEPT !.pc = "swap", !.outAmount = outAmount,
                                 !.feeAccount = feeWallet]
              ELSE NoSwap
  /\ UNCHANGED feeWallet

\* Executor.buildSwapTransaction returns the swap (or throws), and buildBuy /
\* buildSell return the descriptor with its feeSol.
SwapDone(ok) ==
  /\ built.pc = "swap"
  /\ built' = IF ok
              THEN [built EXCEPT !.pc = "ready", !.feeSol = FeeSol(Notional(built))]
              ELSE NoSwap
  /\ UNCHANGED feeWallet

\* Engine._execute: db.fillOrder(order.id, {..., fee_sol: result.feeSol}).
FillOrder ==
  /\ built.pc = "ready"
  /\ built' = [built EXCEPT !.pc = "filled", !.fee_sol = built.feeSol]
  /\ UNCHANGED feeWallet

NextFee ==
  \/ \E type \in {"buy", "sell"}, amount \in Notionals :
       BuildStart(type, amount) /\ UNCHANGED <<door, heard, ws, cycles>> /\ BookIdle
  \/ \E ok \in BOOLEAN, out \in Notionals :
       QuoteDone(ok, out) /\ UNCHANGED <<door, heard, ws, cycles>> /\ BookIdle
  \/ \E ok \in BOOLEAN : SwapDone(ok) /\ UNCHANGED <<door, heard, ws, cycles>> /\ BookIdle
  \/ FillOrder /\ UNCHANGED <<door, heard, ws, cycles>> /\ BookIdle

InitFee ==
  /\ InitEngine({BookOrder(1)})
  /\ InitBook
  /\ InitExecutor(BOOLEAN)
  /\ InitSide

SpecFee == InitFee /\ [][NextFee]_vars

\* ------------------------------------------- the order cap of the front door

\* POST /api/orders up to `await db.getActiveOrderCountByWallet(wallet)` and
\* the check of its answer: 429 at the limit, else db.createOrder is called.
PostCount(r) ==
  /\ door.post[r] = "idle"
  /\ door' = [door EXCEPT
                !.post[r] = IF door.active >= ACTIVE_LIMIT THEN "rejected"
                            ELSE "create"]

\* POST /api/orders after `await db.createOrder(...)`: the store has inserted
\* the active row, or the insert failed (500).
PostCreate(r, ok) ==
  /\ door.post[r] = "create"
  /\ door' = IF ok
             THEN [door EXCEPT !.post[r] = "created", !.active = @ + 1]
             ELSE [door EXCEPT !.post[r] = "error"]

\* DELETE /api/orders/:id: db.cancelOrder turns one of the wallet's active
\* rows into a cancelled one.
DeleteCancel ==
  /\ door.active > 0
  /\ door' = [door EXCEPT !.active = @ - 1]

NextDoor ==
  \/ \E r \in Requests :
       PostCount(r) /\ UNCHANGED <<feeWallet, built, heard, ws, cycles>> /\ BookIdle
  \/ \E r \in Requests, ok \in BOOLEAN :
       PostCreate(r, ok) /\ UNCHANGED <<feeWallet, built, heard, ws, cycles>> /\ BookIdle
  \/ DeleteCancel /\ UNCHANGED <<feeWallet, built, heard, ws, cycles>> /\ BookIdle

SpecDoor == InitWith({BookOrder(1)}) /\ [][NextDoor]_vars

\* ------------------------------------------------- polls that overlap

\* The interval timer of startPolling calls _poll (no call waits for the one
\* before): up to the fetch of the batch.  The calls followed here have a
\* watch list of one batch.
CycleStart ==
  /\ cycles.started < MaxCycles
  /\ Len(WatchList) <= BatchSize
  /\ cycles' = [cycles EXCEPT
                  !.started = @ + 1,
                  !.flying = IF watching = {} THEN @
                             ELSE @ \cup {[n |-> cycles.started + 1,
                                           tokens |-> WatchList,
                                           pc |-> "sent",
                                           data |-> [t \in Tokens |-> 0]]}]
  /\ UNCHANGED bookVars

\* The API answers the request of call c with the prices it has now; the
\* response is on its way.
CycleAnswered(c) ==
  /\ c.pc = "sent"
  /\ cycles' = [cycles EXCEPT
                  !.flying = (@ \ {c}) \cup
                    {[c EXCEPT !.pc = "answered",
                               !.data = [t \in Tokens |->
                                           IF t \in Range(c.tokens)
                                           THEN quote[t] ELSE 0]]}]
  /\ UNCHANGED bookVars

\* Call c of _poll from `await fetch(url)` to its end: as PollResponse, with
\* the prices of the response it was sent.
CycleResponse(c, ok) ==
  /\ c.pc = "answered"
  /\ LET batch == Range(c.tokens)
         emitted == { t \in batch :
                        c.data[t] > 0 /\ EmitsPriceUpdate(t, c.data[t]) }
         triggered == Triggered(emitted, c.data)
         stored == { t \in batch : c.data[t] > 0 \/ ~prices[t].has }
     IN /\ cycles' = [cycles EXCEPT
                        !.flying = @ \ {c},
                        !.stamp = [t \in Tokens |->
                                     IF ok /\ t \in stored THEN c.n ELSE @[t]]]
        /\ heard' = Heard("poll",
                          IF ok THEN { [token |-> t, price |-> c.data[t]] :
                                         t \in emitted }
                          ELSE {})
        /\ IF ok
           THEN /\ prices' = [t \in Tokens |->
                                IF t \notin batch THEN prices[t]
                                ELSE IF c.data[t] > 0 THEN Priced(c.data[t])
                                ELSE IF ~prices[t].has THEN NotIndexed
                                ELSE prices[t]]
                /\ executingIds' = executingIds \cup triggered
                /\ running' = running \cup triggered
           ELSE UNCHANGED <<prices, executingIds, running>>
  /\ UNCHANGED <<rows, orders, watching, quote, poll, fresh, pending, did>>

CyclesIdle == UNCHANGED <<did, feeWallet, built, door, ws, engineVars>>

NextCycles ==
  \/ \E t \in Tokens :
       WatchToken(t) /\ heard' = Silence /\ UNCHANGED cycles /\ CyclesIdle
  \/ \E t \in Tokens :
       /\ UnwatchToken(t) /\ heard' = Silence
       /\ cycles' = [cycles EXCEPT !.stamp[t] = 0]
       /\ CyclesIdle
  \/ CycleStart /\ heard' = Silence /\ CyclesIdle
  \/ \E c \in cycles.flying : CycleAnswered(c) /\ heard' = Silence /\ CyclesIdle
  \/ \E c \in cycles.flying, ok \in BOOLEAN : CycleResponse(c, ok) /\ CyclesIdle
  \/ \E t \in Tokens, p \in Quotes :
       QuoteMoves(t, p) /\ heard' = Silence /\ UNCHANGED cycles /\ CyclesIdle

SpecCycles == InitWith({BookOrder(1)}) /\ [][NextCycles]_vars

\* ------------------------------------------- the WebSocket and its delay

\* A variant of the doubling below without the cap.
NextDelayUncapped(d) == d * 2

\* Math.min(this.reconnectDelay * 2, this.maxReconnectDelay), and the same
\* with _wsReconnectDelay and 30000 in the second class.
NextDelay(d) == Min(d * 2, RECONNECT_CEILING)

\* connect() / connectHelius() called by the owner of the monitor, with
\* HELIUS_WS_URL set: new WebSocket(url).
Connect(m) ==
  /\ ws[m].socket = "none" /\ ws[m].timer = 0
  /\ ws' = [ws EXCEPT ![m].socket = "connecting"]

\* on('open'): the delay is reset.
WsOpen(m) ==
  /\ ws[m].socket = "connecting"
  /\ ws' = [ws EXCEPT ![m].socket = "open", ![m].reconnectDelay = RECONNECT_FLOOR]

\* on('close'), of an open socket or of one that never opened (also after
\* stop() or disconnect() closed it): setTimeout(connect, delay), then the
\* delay is doubled up to the cap.
WsClose(m) ==
  /\ ws[m].socket \in {"connecting", "open"}
  /\ ws' = [ws EXCEPT ![m].socket = "none",
                      ![m].timer = ws[m].reconnectDelay,
                      ![m].reconnectDelay = NextDelay(ws[m].reconnectDelay)]

\* The reconnect timer fires: connect() / connectHelius() again.
WsReconnect(m) ==
  /\ ws[m].timer # 0
  /\ ws' = [ws EXCEPT ![m].timer = 0, ![m].socket = "connecting"]

\* (on('error') only logs; on('message') does not touch the delay.)
NextWs ==
  \/ \E m \in Monitors :
       Connect(m) /\ UNCHANGED <<feeWallet, built, door, heard, cycles>> /\ BookIdle
  \/ \E m \in Monitors :
       WsOpen(m) /\ UNCHANGED <<feeWallet, built, door, heard, cycles>> /\ BookIdle
  \/ \E m \in Monitors :
       WsClose(m) /\ UNCHANGED <<feeWallet, built, door, heard, cycles>> /\ BookIdle
  \/ \E m \in Monitors :
       WsReconnect(m) /\ UNCHANGED <<feeWallet, built, door, heard, cycles>> /\ BookIdle

SpecWs == InitWith({BookOrder(1)}) /\ [][NextWs]_vars

\* ------------------------------------------------------------------ claims

\* A step in which suspended call t is resumed (it leaves the await it was at).
Resumed(t) == CopiesIn(t, tasks') < CopiesIn(t, tasks)

\* C1: for every order id at most one execution (_execute attempt sequence)
\* is in flight at any time, whatever the order kind and however price ticks
\* overlap with an awaited peak write or swap build.
C1_AtMostOneExecution == Executions <= 1

\* C2: over any run, the 'orderTriggered' hand-off event of an order is
\* emitted at most once.
C2_EmittedAtMostOnce == log.emits <= 1

\* C3: once the cancel request has succeeded (the store returned the cancelled
\* order), no trigger event is emitted and no filled record is written for
\* the order.
C3_CancelExcludesTrigger ==
  [][cancelPc = "done" =>
       /\ ~(\E t \in Suspended : t.pc = "build" /\ tasks' = Goto(t, "fill"))
       /\ ~(\E t \in Suspended : t.pc = "fill" /\ Resumed(t) /\ dbStatus' = "filled")
    ]_vars

\* C4: in the store the status only moves from active to filled, cancelled or
\* failed, and a filled, cancelled or failed status never changes again.
C4_TerminalStatusImmutable ==
  [][dbStatus # "active" => dbStatus' = dbStatus]_vars

\* C5: an execution whose every attempt fails makes exactly 3 attempts (never
\* a 4th), then marks the order failed in the store with the error message of
\* the 3rd attempt as reason, and removes it from the active set.
C5_ThreeAttemptsThenFailed ==
  [][\A t \in Suspended :
       /\ t.attempt <= 3
       /\ (t.pc = "failFinal" /\ Resumed(t)) =>
            /\ t.attempt = 3
            /\ dbStatus' = "failed" /\ dbReason' = t.err
            /\ ~inOrders'
    ]_vars

\* C6: after an order's final failed attempt it is permanently out of the
\* active set (so no later tick or reconciliation pass has it evaluated or
\* executed again), also when the failOrder write itself fails.
C6_FailedStaysOut == log.finalFailed => ~inOrders

\* C7: when the balance lookup of a sell-kind order returns 0, the order ends
\* failed with reason 'no_token_balance' and the execution ends there: no
\* further attempt, no build request, no trigger event.
C7_ZeroBalanceIsTerminal ==
  [][\A t \in Suspended :
       (t.pc = "failZero" /\ Resumed(t)) =>
         /\ tasks' = Take(tasks, t)
         /\ dbStatus' = "failed" /\ dbReason' = "no_token_balance"
    ]_vars

C9_TakeProfitTrigger ==
  (order.order_type = "take_profit" /\ obs.price > 0) =>
     LET present == order.entry_price # 0 /\ order.target_multiplier # 0
         reached == obs.price >= order.entry_price * order.target_multiplier
     IN /\ obs.trig <=> (present /\ reached)
        /\ EvaluateOrderLegacy(order, 0, obs.price) <=> (present /\ reached)
        /\ ~present => (~obs.triggered /\ Executions = 0)

\* entry 5, multiplier 2: the tick at exactly 10 triggers.
C9_Witness ==
  /\ order.order_type = "take_profit"
  /\ order.entry_price = 5 /\ order.target_multiplier = 2
  /\ obs.price = 10 /\ obs.trig /\ Executions = 1

\* C10: for a trailing_stop order with a trail_percent, on ticks processed one
\* after another, a tick of an order that has not triggered before triggers
\* exactly when price <= P * (1 - trail_percent / 100), P being the highest
\* price notified so far, the current tick included.
C10_TrailingTrigger ==
  (/\ order.order_type = "trailing_stop" /\ order.trail_percent > 0
   /\ obs.price > 0 /\ obs.fresh) =>
     (obs.trig <=> obs.price * 100 <= obs.seen * (100 - order.trail_percent))

\* trail 15, third tick at 12 after a high of 15: 12 <= 12.75 triggers.
C10_Witness ==
  /\ order.order_type = "trailing_stop" /\ order.trail_percent = 15
  /\ ticks = 3 /\ obs.fresh /\ obs.seen = 15 /\ memPeak = 15
  /\ obs.price = 12 /\ obs.trig

\* C11: the in-memory peak_price of an active trailing_stop order never
\* decreases, whatever the prices and however tick evaluations and
\* reconciliation passes interleave: while the order is active in the store
\* and in Engine.orders, its peak_price is the highest it has held.
C11_PeakMonotonic ==
  (order.order_type = "trailing_stop" /\ dbStatus = "active" /\ inOrders) =>
    memPeak >= log.peak

\* C12: a trailing_stop tick that sets a new high never itself triggers the
\* order (trail_percent > 0), also when a later tick is evaluated while the
\* peak write of the first is still awaited: the evaluation that resumes from
\* the peak write of a new high starts no execution.
C12_NewHighNeverTriggers ==
  [][\A t \in Suspended :
       (t.pc = "peakWrite" /\ Resumed(t) /\ order.trail_percent > 0) =>
         Executions' = Executions
    ]_vars

\* The kind-specific parameters of an order are missing (null).
MissingParams(o) ==
  CASE o.order_type \in {"limit_buy", "stop_loss"} -> o.target_price = 0
    [] o.order_type = "take_profit" ->
         o.entry_price = 0 \/ o.target_multiplier = 0
    [] o.order_type = "trailing_stop" -> o.trail_percent = 0
    [] OTHER -> TRUE

\* C13: an order whose kind-specific parameters are missing never triggers,
\* on any price sequence: no tick decision is a trigger and no execution is
\* ever started for it.
C13_MissingParamsNeverTrigger ==
  MissingParams(order) =>
    /\ ~obs.trig /\ ~obs.triggered
    /\ ~executing /\ Executions = 0

\* A trailing_stop order without trail_percent has been evaluated on three
\* ticks, the last one 12 after a high of 15, without triggering.
C13_Witness ==
  /\ order.order_type = "trailing_stop" /\ order.trail_percent = 0
  /\ ticks = 3 /\ memPeak = 15
  /\ obs.price = 12 /\ obs.seen = 15 /\ ~obs.trig

\* C14: Engine.removeOrder(id) unwatches the token of the removed order
\* exactly when no other order of the active set is on that token; removing
\* a non-last order, or an id that is not in the set, leaves the watch set
\* as it was.
C14_UnwatchIffLast ==
  [][did'.op = "removeOrder" =>
       LET id == did'.id
           others == { x \in Range(orders) \ {id} : TokenOf(x) = TokenOf(id) }
       IN watching' = IF InOrders(id) /\ others = {}
                      THEN watching \ {TokenOf(id)}
                      ELSE watching
    ]_vars

\* removeOrder(1) has just removed order 1 while order 2 is on the same
\* token, which is still watched.
C14_Witness ==
  /\ did = Did("removeOrder", 1, TRUE)
  /\ orders = <<2>> /\ "A" \in watching

\* No front-door request, reconciliation pass or execution is under way.
QuiescentBook ==
  /\ pending.adding = {} /\ pending.removing = {}
  /\ fresh.pc = "idle" /\ running = {}

\* C15: in every quiescent state every watched token is referenced by at
\* least one order of the active set, also when orders left the set through
\* a reconciliation pass.
C15_WatchedIsReferenced ==
  QuiescentBook =>
    \A t \in watching : \E id \in Range(orders) : TokenOf(id) = t

\* C16: watch(t) of a watched token leaves the watch set as it is, and a poll
\* cycle requests each token that was watched at its start in exactly one
\* batch (never twice, and once when the cycle is over).
C16_WatchIdempotentOneBatch ==
  [][/\ \A w \in SUBSET Tokens, t \in Tokens : Watch(Watch(w, t), t) = Watch(w, t)
     /\ \A id \in Ids :
          (id \in pending.adding /\ id \notin pending'.adding
           /\ TokenOf(id) \in watching) => watching' = watching
     /\ (poll.pc = "idle" /\ poll'.pc = "fetch") =>
          /\ Range(poll'.tokens) = watching
          /\ Cardinality(Range(poll'.tokens)) = Len(poll'.tokens)
     /\ \A t \in Tokens : poll'.asked[t] <= 1
     /\ (poll.pc = "fetch" /\ poll'.pc = "idle") =>
          \A t \in Tokens :
            poll'.asked[t] = IF t \in Range(poll.tokens) THEN 1 ELSE 0
    ]_vars

\* A poll cycle over the two watched tokens is over; each was requested once.
C16_Witness ==
  /\ poll.pc = "idle" /\ poll.tokens = <<"A", "B">> /\ poll.ok
  /\ poll.asked["A"] = 1 /\ poll.asked["B"] = 1

NoDuplicates(seq) == Cardinality(Range(seq)) = Len(seq)

\* C17: addOrder of an id that is already in the active set changes nothing,
\* and no two entries of the active set ever share an id.
C17_AddIdempotentNoDuplicates ==
  [][/\ (did'.op = "addOrder" /\ InOrders(did'.id)) =>
          (orders' = orders /\ watching' = watching)
     /\ NoDuplicates(orders')
    ]_vars

\* addOrder(2) found order 2 in the set (a reconciliation pass had added it).
C17_Witness ==
  /\ did = Did("addOrder", 2, TRUE)
  /\ orders = <<1, 2>>

\* Order id is in the active set, not executing, and its condition holds at
\* the price the API reports for its token.
AwaitsTrigger(id) ==
  /\ InOrders(id) /\ id \notin executingIds
  /\ quote[TokenOf(id)] > 0
  /\ ShouldTrigger(BookOrder(id), 0, quote[TokenOf(id)])

\* C18: an order that is in the active set with its condition holding at the
\* reported price is eventually triggered, also when the price never changes
\* and its token was already watched for another order (unless the price
\* moves away or the order leaves the set first).
C18_FreshOrderEvaluated ==
  \A id \in Ids : AwaitsTrigger(id) ~> ~AwaitsTrigger(id)

\* C19: after a poll has processed the response of a batch, every token of
\* the batch that is absent from the response has the not-indexed marker as
\* its observation (no earlier price is left in place).
C19_AbsentMarkedNotIndexed ==
  [][(poll.pc = "fetch" /\ poll' # poll /\ poll'.ok) =>
       \A t \in Range(Batch(poll.tokens, poll.i)) :
         quote[t] = 0 => prices'[t] = NotIndexed
    ]_vars

\* C20: when a reconciliation pass completes, the ids of the active set are
\* exactly the ids the store returned as active for that pass, and the tokens
\* of the orders it added are watched.
C20_ReloadEqualsSnapshot ==
  [][did'.op = "reloadOrders" =>
       /\ Range(orders') = fresh.ids
       /\ \A id \in fresh.ids \ Range(orders) : TokenOf(id) \in watching'
    ]_vars

\* A pass has just added order 2 and dropped the cancelled order 1, whose
\* cancel request has not yet reached removeOrder.
C20_Witness ==
  /\ did = Did("reloadOrders", 0, TRUE)
  /\ orders = <<2>> /\ "A" \in watching
  /\ rows[1] = "closed" /\ rows[2] = "active"
  /\ 1 \in pending.removing /\ 1 \notin pending.adding

\* C21: without a fee recipient the platform fee is omitted entirely (no
\* platformFeeBps on the quote request, no feeAccount on the swap-build
\* request, fee 0 in the swap descriptor and in the filled record); with a
\* recipient the fee is exactly 50 basis points of the notional.
C21_FeeOmittedWithoutRecipient ==
  /\ ~feeWallet =>
       /\ built.platformFeeBps = 0 /\ ~built.feeAccount
       /\ built.feeSol = 0 /\ built.fee_sol = 0
  /\ (feeWallet /\ built.pc \in {"ready", "filled"}) =>
       /\ built.platformFeeBps = 50 /\ built.feeAccount
       /\ built.feeSol * 10000 = 50 * Notional(built)
       /\ built.pc = "filled" => built.fee_sol = built.feeSol

\* C22: after the cancel handler has removed the order from the active set
\* while no evaluation or execution of it was under way, no evaluation or
\* execution of the order starts again, whatever ticks follow and also when
\* a reconciliation pass was already reading the store.
C22_CancelledNeverRestarts ==
  log.idleCancel => (tasks = EmptyBag /\ ~executing)

\* C23: the number of active orders of a wallet in the store never exceeds
\* 3, however concurrent create requests (count check, then createOrder) and
\* cancellations interleave.
C23_ActiveOrdersCapped == door.active <= 3

\* C24: the 'orderTriggered' event of an order is emitted only after its
\* filled record has been persisted and the order has been removed from the
\* active set; so an order whose event was emitted never has status failed.
C24_EmittedAfterFilled ==
  log.emits > 0 => (dbStatus = "filled" /\ ~inOrders)

\* C25: a failed balance lookup of a sell-kind execution (the RPC call
\* throws, or the RPC answers with an error and no result) is a transient
\* error: the attempt fails and is retried within the 3 attempts, and the
\* execution does not go on to end the order with reason 'no_token_balance'.
C25_BalanceErrorIsTransient ==
  [][\A t \in Suspended, r \in {"network_error", "error_response"} :
       BalanceDone(t, r) => tasks' = Catch(t, "balance")
    ]_vars

\* C26: the order's id is in Engine._executing from before the first attempt
\* of an execution until that execution's terminal outcome: while a call of
\* _execute is under way, no other operation (removeOrder on a cancellation,
\* a reconciliation pass) has cleared the guard.
C26_GuardHeldWhileExecuting == Executions > 0 => executing

\* A step in which the response of a batch is processed; ok: it carried data.
Responded(ok) ==
  poll.pc = "fetch" /\ poll'.asked # poll.asked /\ poll'.ok = ok

\* C27: in a poll, a change event is emitted for a token exactly when a price
\* was fetched for it and that price is the first one known for the token or
\* differs from the last known one; a fetched price equal to the last known
\* one emits nothing.
C27_EventIffFirstOrChanged ==
  [][Responded(TRUE) =>
       /\ \A e \in heard'.events :
            /\ e.token \in Range(Batch(poll.tokens, poll.i))
            /\ e.price = quote[e.token] /\ e.price > 0
       /\ \A t \in Range(Batch(poll.tokens, poll.i)) :
            quote[t] > 0 =>
              LET first == ~prices[t].has \/ prices[t].price = 0
                  changed == prices[t].price # quote[t]
              IN (\E e \in heard'.events : e.token = t) <=> (first \/ changed)
    ]_vars

\* A poll has fetched 10 for token A, the price it already had: no event.
C27_Witness ==
  /\ heard = Heard("poll", {}) /\ poll.ok /\ poll.tokens = <<"A">>
  /\ poll.asked["A"] = 1
  /\ prices["A"] = Priced(10) /\ quote["A"] = 10

\* C28: when the fetch of a batch fails (exception, status not OK, response
\* without data) the poll skips the batch: prices and watch set stay as they
\* are, no event is emitted, the remaining batches of the cycle are still
\* fetched, no token is requested twice in a cycle, and the next cycle
\* requests every watched token again.
C28_FailedBatchSkipped ==
  [][/\ Responded(FALSE) =>
          /\ prices' = prices /\ watching' = watching
          /\ heard'.events = {}
          /\ IF poll.i + BatchSize <= Len(poll.tokens)
             THEN poll'.pc = "fetch" /\ poll'.i = poll.i + BatchSize
                  /\ poll'.tokens = poll.tokens
             ELSE poll'.pc = "idle"
     /\ \A t \in Tokens : poll'.asked[t] <= 1
     /\ (poll.pc = "idle" /\ poll'.pc = "fetch") =>
          Range(poll'.tokens) = watching
    ]_vars

\* The batch of token A has failed while A had a price; the price is kept
\* and the batch of token B is being fetched.
C28_Witness ==
  /\ heard = Heard("poll", {}) /\ ~poll.ok
  /\ poll.pc = "fetch" /\ poll.tokens = <<"A", "B">> /\ poll.i = 2
  /\ poll.asked["A"] = 1 /\ poll.asked["B"] = 0
  /\ prices["A"] = Priced(10)

\* C29: when the fetches for the batch of one token never return, every
\* watched token of another batch still gets a price observation in the end
\* (unless it is unwatched first).
C29_OtherBatchesProgress ==
  \A t \in Tokens \ {Hanging} :
    (t \in watching /\ ~prices[t].has) ~> (prices[t].has \/ t \notin watching)

\* C30: on a price tick every order of the active set on the tick's token is
\* evaluated on its own: each one that is not executing and whose condition
\* holds at the tick's price starts its execution, whatever other orders
\* are waiting for an external call or have failed, and no other order is
\* started.
C30_OrdersEvaluatedIndependently ==
  [][heard'.op = "tick" =>
       \A e \in heard'.events :
         LET due == { id \in Range(orders) :
                        /\ TokenOf(id) = e.token /\ e.price > 0
                        /\ id \notin executingIds
                        /\ ShouldTrigger(BookOrder(id), 0, e.price) }
         IN /\ running' = running \cup due
            /\ executingIds' = executingIds \cup due
    ]_vars

\* A tick at 9 on token A has started orders 1 and 2 (one of them possibly
\* on an earlier tick) while the execution of order 3 on token B is waiting.
C30_Witness ==
  /\ heard = Heard("tick", {[token |-> "A", price |-> 9]})
  /\ orders = <<1, 2, 3>> /\ running = {1, 2, 3}

\* C31: the peak_price the store holds for an active trailing_stop order
\* never decreases, however the evaluations of overlapping ticks interleave
\* and in whatever order their db.updatePeakPrice writes complete.
C31_StoredPeakNonDecreasing ==
  [][(order.order_type = "trailing_stop" /\ dbStatus = "active"
        /\ dbStatus' = "active") => dbPeak' >= dbPeak
    ]_vars

\* C32: when the peak write of a trailing_stop evaluation fails (the store
\* keeps the value it had), the order object keeps the peak the evaluation
\* assigned, and the trigger check of that tick is still made: an execution
\* starts exactly when the tick's price is at or below the object's peak less
\* the trail.
C32_FailedPeakWriteGoesOn ==
  [][\A t \in Suspended :
       PeakWriteDone(t, FALSE) =>
         LET peak == IF t.peak = 0 THEN memPeak ELSE t.peak
         IN  /\ memPeak' = memPeak
             /\ peak >= t.price
             /\ (Executions' > Executions) <=>
                  (/\ order.trail_percent # 0
                   /\ t.price * 100 <= peak * (100 - order.trail_percent))
    ]_vars

\* One tick at 15 has set the peak, its write has failed, and the evaluation
\* has ended without a trigger.
C32_Witness ==
  /\ order.order_type = "trailing_stop" /\ order.trail_percent = 15
  /\ ticks = 1 /\ memPeak = 15 /\ dbPeak = 0 /\ inOrders
  /\ tasks = EmptyBag /\ reload.pc = "idle" /\ cancelPc = "idle"

\* C33: the reconnect delay of the WebSocket feed is always between 1000 ms
\* and 30000 ms: while a reconnect is scheduled, the delay is twice the delay
\* the reconnect was scheduled with, capped at 30000, and while the socket is
\* open it is 1000.
C33_ReconnectDelayBounded ==
  \A m \in Monitors :
    LET w == ws[m]
    IN /\ w.reconnectDelay >= 1000 /\ w.reconnectDelay <= 30000
       /\ w.timer # 0 =>
            w.reconnectDelay = IF w.timer * 2 <= 30000 THEN w.timer * 2 ELSE 30000
       /\ w.socket = "open" => w.reconnectDelay = 1000

\* One feed has failed to connect until its delay reached the cap, the other
\* has connected again after a disconnect.
C33_Witness ==
  /\ ws["connectHelius"].timer = 30000
  /\ ws["connectHelius"].reconnectDelay = 30000
  /\ ws["connect"].socket = "open"

\* C34: every order in Engine.orders has its token in PriceMonitor.watching,
\* after any sequence of addOrder, removeOrder, cancellations, executions that
\* end and reconciliation passes.
C34_ActiveOrdersWatched ==
  \A id \in Range(orders) : TokenOf(id) \in watching

\* An order on token A has been removed while another on A stays, and an
\* order on token B is active too: both tokens are still watched.
C34_Witness ==
  /\ did.op = "removeOrder" /\ did.found /\ TokenOf(did.id) = "A"
  /\ \E id \in Range(orders) : TokenOf(id) = "A"
  /\ \E id \in Range(orders) : TokenOf(id) = "B"
  /\ watching = {"A", "B"}

\* C35: the keys of PriceMonitor.prices are a subset of PriceMonitor.watching:
\* after unwatch(t) and until the next watch(t) the feed holds no entry for t
\* (getPrice and getPriceData return none), also when a poll that asked for t
\* was awaiting its response when unwatch was called.
C35_PricesOnlyOfWatched ==
  \A t \in Tokens : prices[t].has => t \in watching

\* C36: the feed's entry for a token is only ever replaced by the response
\* of a call of _poll that started later than the call that stored it, and
\* a change event for the token comes only from such a call: when the calls
\* of the interval timer overlap, the response of an older call never
\* overwrites a newer price.
C36_OlderPollNeverOverwrites ==
  [][\A t \in Tokens :
       (/\ cycles.stamp[t] # 0
        /\ \/ cycles'.stamp[t] \notin {0, cycles.stamp[t]}
           \/ \E e \in heard'.events : e.token = t)
       => cycles'.stamp[t] > cycles.stamp[t]
    ]_vars

\* C37: whenever no call of _execute is under way, the order's id is not in
\* Engine._executing: every exit of _execute (fill, zero balance, final
\* failure, also when a store write throws) clears the guard.
C37_GuardClearedAfterExecution == Executions = 0 => ~executing

\* An execution has ended with its final attempt failed and the write of the
\* failure refused by the store (the row is still active, the order is out
\* of Engine.orders, nothing was cancelled), and the guard is clear.
C37_Witness ==
  /\ tasks = EmptyBag /\ ~executing /\ ~inOrders
  /\ dbStatus = "active" /\ cancelPc = "idle" /\ reload.pc = "idle"

\* C38: a price notification whose price is zero, negative or absent starts
\* no execution of an order of any kind and changes no trailing_stop peak,
\* in memory or in the store; the earlier evaluateOrder fills nothing at such
\* a price either.
C38_NoPriceNoTrigger ==
  [][\A p \in {0, -1} :
       /\ OnPriceUpdate(p) =>
            /\ memPeak' = memPeak /\ dbPeak' = dbPeak
            /\ tasks' = tasks /\ executing' = executing
       /\ \A peak \in Prices \cup {0} : ~EvaluateOrderLegacy(order, peak, p)
    ]_vars

\* One notification has reached the engine while the trailing_stop order was
\* in Engine.orders, and the order still has no peak: its price was not
\* positive.
C38_Witness ==
  /\ order.order_type = "trailing_stop" /\ order.trail_percent = 15
  /\ ticks = 1 /\ memPeak = 0 /\ dbPeak = 0 /\ tasks = EmptyBag
  /\ inOrders /\ ~executing
  /\ dbStatus = "active" /\ cancelPc = "idle" /\ reload.pc = "idle"

\* C39: a reconciliation pass whose store read fails leaves Engine.orders,
\* the watch set and Engine._executing as they were and ends there (the error
\* is caught), so that the next pass can run.
C39_FailedReloadChangesNothing ==
  [][did'.op = "reloadError" =>
       /\ orders' = orders /\ watching' = watching
       /\ executingIds' = executingIds /\ running' = running
       /\ fresh' = fresh /\ fresh'.pc = "idle"
    ]_vars

\* The read of a pass has failed while two orders were active, one of them
\* executing, and both tokens watched.
C39_Witness ==
  /\ did.op = "reloadError"
  /\ Len(orders) >= 2 /\ executingIds # {} /\ watching = {"A", "B"}

====
